---- MODULE Spec2Model ----
(***************************************************************************)
(* The preview job lifecycle: the HTTP handlers of the orchestrator API,   *)
(* the Bull queue "preview-generation" with its pool of two processors,    *)
(* and the pipeline processPreviewJob that every queue attempt runs.       *)
(*                                                                         *)
(* Spec         every operation except the entry timeout, MaxJobs jobs, on *)
(*              a file system whose copies fail without leaving files and  *)
(*              whose removals succeed.                                    *)
(* SpecTimeout  Spec plus the entry timeout, which abandons a running      *)
(*              invocation; MaxTimeoutJobs jobs, MaxZombies abandoned runs.*)
(* SpecGenFails the environment in which every template copy fails.        *)
(* SpecDeployFails  every generation succeeds, every deployment fails.     *)
(* SpecCleanup  the pipeline on a file system that can fail half-way.      *)
(* SpecFair     submissions and the work on them, no cancel, with weak     *)
(*              fairness of the work; SpecFairTimeout adds the timeout.    *)
(* SpecScenario ScenarioJobs jobs, every attempt succeeding, weak fairness *)
(*              of the work.                                               *)
(***************************************************************************)
EXTENDS Integers, Sequences, FiniteSets, TLC

\* ---------------------------------------------------------------- bounds
MaxJobs == 2
MaxTimeoutJobs == 1
MaxZombies == 3
ScenarioJobs == 5

\* ------------------------------------------------------ program constants
Concurrency == 2
Attempts == 3
maxAttempts == 3

JobIds == 1..MaxJobs
TimeoutJobIds == 1..MaxTimeoutJobs
Workers == 1..Concurrency
RunIds == 1..(Concurrency + MaxZombies)
Abandoned == RunIds \ Workers

Null == "null"
CancelledByUser == "Cancelled by user"
PipelineError == "error.message"
DeployUrl == "https://site.netlify.app"
RemoveFailed == "fs.remove rejected"
NeverRemoved == "fs.remove not called"

VARIABLES
  store,           \* PreviewStore: job id -> record (status "none": no record)
  jobs,            \* the queue's job hash: id -> [present, attemptsMade]
  wait,            \* the queue's wait list, oldest first
  delayed,         \* id -> number of entries in the delayed set (backoff)
  failed,          \* id -> number of entries retained in the failed set
  runs,            \* run slot -> pipeline invocation; slots of Workers hold
                   \* the active entries, the others hold abandoned runs
  started,         \* id -> number of pipeline invocations started so far
  removedWaiting,  \* ids whose waiting entry a cancel request removed
  leaked,          \* <<id, why>>: an ended run of id left its directory in /tmp
  out              \* what the latest step reported (response or log line)

vars == <<store, jobs, wait, delayed, failed, runs, started, removedWaiting, leaked, out>>

NoRec == [status |-> "none", liveUrl |-> Null, error |-> Null]
NoJob == [present |-> FALSE, attemptsMade |-> 0]
Idle ==
  [job |-> 0, pc |-> "idle", attempts |-> 0, appPath |-> FALSE, onDisk |-> FALSE,
   liveUrl |-> Null]
NoOut == [ev |-> "none", id |-> 0]

Say(e, j) == [ev |-> e, id |-> j]

\* ------------------------------------------------------------ PreviewStore
\* db.previews.update(id, changes): a point update; no record, no change.
Update(st, id, changes) ==
  IF st[id].status = "none" THEN st
  ELSE [st EXCEPT ![id] =
          [f \in DOMAIN st[id] |->
             IF f \in DOMAIN changes THEN changes[f] ELSE st[id][f]]]

\* ------------------------------------------------------------------ queue
InWait(j) == \E i \in DOMAIN wait : wait[i] = j
WaitCount(j) == Cardinality({i \in DOMAIN wait : wait[i] = j})
ActiveCount(j) == Cardinality({w \in Workers : runs[w].pc # "idle" /\ runs[w].job = j})
EntryCount(j) == WaitCount(j) + delayed[j] + ActiveCount(j) + failed[j]
Locked(j) == ActiveCount(j) > 0

RemoveAt(s, i) == [k \in 1..(Len(s) - 1) |-> IF k < i THEN s[k] ELSE s[k + 1]]
Without(s, j) == SelectSeq(s, LAMBDA x : x # j)

\* previewQueue.add(data, {jobId}) : the pair <<jobs, wait>> after the call.
AddJobNoDedup(h, w, id) ==
  <<[h EXCEPT ![id] = [present |-> TRUE, attemptsMade |-> 0]], Append(w, id)>>

AddJob(h, w, id) ==
  IF h[id].present THEN <<h, w>>
  ELSE <<[h EXCEPT ![id] = [present |-> TRUE, attemptsMade |-> 0]], Append(w, id)>>

\* The position of the wait list the next free processor takes.
TakeIndexNewest(w) == Len(w)

TakeIndex(w) == 1

\* attempts: 3 -- after a failed attempt the entry is retried while the
\* attempts made stay below the cap.
RetryAllowedOffByOne(made) == made <= Attempts

RetryAllowed(made) == made < Attempts

\* if (!liveUrl)
FalsyNullOnly(u) == u = Null

Falsy(u) == u \in {Null, ""}

Ids == DOMAIN store

TypeOK ==
  /\ \A j \in Ids :
       /\ store[j].status \in {"none", "building", "generating", "live", "failed"}
       /\ jobs[j].attemptsMade \in 0..Attempts
       /\ delayed[j] \in Nat /\ failed[j] \in Nat /\ started[j] \in Nat
  /\ \A r \in RunIds : runs[r].job \in Ids \cup {0}

\* The state after start-up: no record, an empty queue, idle processors.
Start(ids) ==
  /\ store = [j \in ids |-> NoRec]
  /\ jobs = [j \in ids |-> NoJob]
  /\ wait = <<>>
  /\ delayed = [j \in ids |-> 0]
  /\ failed = [j \in ids |-> 0]
  /\ runs = [r \in RunIds |-> Idle]
  /\ started = [j \in ids |-> 0]
  /\ removedWaiting = {}
  /\ leaked = {}
  /\ out = NoOut

Init == Start(JobIds)

InitTimeout == Start(TimeoutJobIds)

\* ---------------------------------------------------------- HTTP handlers
\* POST /api/preview: insert the record, then enqueue under the same id.
\* The id is freshly generated, so it names no existing record.
Submit(j) ==
  /\ store[j].status = "none"
  /\ \A k \in Ids : k < j => store[k].status # "none"
  /\ store' = [store EXCEPT ![j] = [status |-> "building", liveUrl |-> Null, error |-> Null]]
  /\ LET q == AddJob(jobs, wait, j) IN jobs' = q[1] /\ wait' = q[2]
  /\ out' = Say("accepted", j)
  /\ UNCHANGED <<delayed, failed, runs, started, removedWaiting, leaked>>

\* POST /api/preview when previewQueue.add rejects (backing store unavailable):
\* the catch block answers 500; the record inserted before stays.
SubmitEnqueueFails(j) ==
  /\ store[j].status = "none"
  /\ \A k \in Ids : k < j => store[k].status # "none"
  /\ store' = [store EXCEPT ![j] = [status |-> "building", liveUrl |-> Null, error |-> Null]]
  /\ out' = NoOut
  /\ UNCHANGED <<jobs, wait, delayed, failed, runs, started, removedWaiting, leaked>>

\* previewQueue.add called again with the id of an entry the queue still holds
\* (a submission retried under the same job id).
DuplicateAdd(j) ==
  /\ jobs[j].present
  /\ LET q == AddJob(jobs, wait, j) IN jobs' = q[1] /\ wait' = q[2]
  /\ out' = Say("duplicate", j)
  /\ UNCHANGED <<store, delayed, failed, runs, started, removedWaiting, leaked>>

\* DELETE /api/preview/:jobId when the entry is absent or not being processed:
\* job.remove() deletes it from whichever set holds it, then the record is
\* marked failed (no record: the update changes nothing) and the answer is
\* 200, success: true, 'Preview cancelled'.
Cancel(j) ==
  /\ ~(jobs[j].present /\ Locked(j))
  /\ IF jobs[j].present
     THEN /\ wait' = Without(wait, j)
          /\ delayed' = [delayed EXCEPT ![j] = 0]
          /\ failed' = [failed EXCEPT ![j] = 0]
          /\ jobs' = [jobs EXCEPT ![j] = NoJob]
          /\ removedWaiting' = IF InWait(j) THEN removedWaiting \cup {j} ELSE removedWaiting
     ELSE UNCHANGED <<wait, delayed, failed, jobs, removedWaiting>>
  /\ store' = Update(store, j, [status |-> "failed", error |-> CancelledByUser])
  /\ out' = Say("cancelled", j)
  /\ UNCHANGED <<runs, started, leaked>>

\* DELETE while a processor holds the entry's lock: job.remove() removes
\* nothing. Depending on the queue library's version it resolves, and the
\* handler goes on to mark the record failed ...
CancelActiveSilent(j) ==
  /\ jobs[j].present /\ Locked(j)
  /\ store' = Update(store, j, [status |-> "failed", error |-> CancelledByUser])
  /\ out' = Say("cancelled", j)
  /\ UNCHANGED <<jobs, wait, delayed, failed, runs, started, removedWaiting, leaked>>

\* ... or it rejects, and the catch block answers 500 with the record untouched.
CancelActiveThrows(j) ==
  /\ jobs[j].present /\ Locked(j)
  /\ out' = Say("cancel failed", j)
  /\ UNCHANGED <<store, jobs, wait, delayed, failed, runs, started, removedWaiting, leaked>>

\* ------------------------------------------------------------- the queue
\* A failed attempt: attemptsMade is incremented; the entry goes to the
\* delayed set for its backoff, or, the cap reached, to the failed set where
\* removeOnFail: false keeps it.
MoveToFailed(j) ==
  LET made == jobs[j].attemptsMade + 1 IN
  /\ jobs' = [jobs EXCEPT ![j].attemptsMade = made]
  /\ IF RetryAllowed(made)
     THEN delayed' = [delayed EXCEPT ![j] = @ + 1] /\ failed' = failed
     ELSE failed' = [failed EXCEPT ![j] = @ + 1] /\ delayed' = delayed

\* A processor that lets a retried entry resume at the deployment.
DequeueResuming(w) ==
  /\ wait # <<>>
  /\ runs[w].pc = "idle"
  /\ \A v \in Workers : v < w => runs[v].pc # "idle"
  /\ LET i == TakeIndex(wait)
         j == wait[i] IN
       /\ wait' = RemoveAt(wait, i)
       /\ runs' = [runs EXCEPT ![w] =
                     IF jobs[j].attemptsMade > 0
                     THEN [Idle EXCEPT !.job = j, !.pc = "deploy", !.appPath = TRUE]
                     ELSE [Idle EXCEPT !.job = j, !.pc = "start"]]
       /\ started' = [started EXCEPT ![j] = @ + 1]
       /\ out' = Say("processing", j)
  /\ UNCHANGED <<store, jobs, delayed, failed, removedWaiting, leaked>>

\* previewQueue.process(2, ...): a free processor takes the next waiting entry
\* and calls processPreviewJob(job.data).
Dequeue(w) ==
  /\ wait # <<>>
  /\ runs[w].pc = "idle"
  /\ \A v \in Workers : v < w => runs[v].pc # "idle"
  /\ LET i == TakeIndex(wait)
         j == wait[i] IN
       /\ wait' = RemoveAt(wait, i)
       /\ runs' = [runs EXCEPT ![w] = [Idle EXCEPT !.job = j, !.pc = "start"]]
       /\ started' = [started EXCEPT ![j] = @ + 1]
       /\ out' = Say("processing", j)
  /\ UNCHANGED <<store, jobs, delayed, failed, removedWaiting, leaked>>

\* The backoff delay of a delayed entry elapses: back to the wait list.
PromoteDelayed(j) ==
  /\ delayed[j] > 0
  /\ delayed' = [delayed EXCEPT ![j] = @ - 1]
  /\ wait' = Append(wait, j)
  /\ out' = NoOut
  /\ UNCHANGED <<store, jobs, failed, runs, started, removedWaiting, leaked>>

\* timeout: 120000 -- the attempt is failed with a timeout error while the
\* handler is waiting on generation or deployment. The handler's promise is
\* not cancelled: the invocation keeps running, no longer holding a processor.
Timeout(w) ==
  /\ runs[w].pc \in {"gen", "deploy"}
  /\ \E z \in Abandoned :
       /\ runs[z].pc = "idle"
       /\ \A y \in Abandoned : y < z => runs[y].pc # "idle"
       /\ runs' = [runs EXCEPT ![z] = runs[w], ![w] = Idle]
  /\ MoveToFailed(runs[w].job)
  /\ out' = NoOut
  /\ UNCHANGED <<store, wait, started, removedWaiting, leaked>>

\* ------------------------------------------------- processPreviewJob steps
\* db.previews.update(jobId, {status: 'building'})
WriteBuilding(r) ==
  /\ runs[r].pc = "start"
  /\ store' = Update(store, runs[r].job, [status |-> "building"])
  /\ runs' = [runs EXCEPT ![r].pc = "gen"]
  /\ out' = NoOut
  /\ UNCHANGED <<jobs, wait, delayed, failed, started, removedWaiting, leaked>>

\* generateAppCode: one fs.copy that throws; the third failure is rethrown.
CopyFails(r) ==
  /\ runs[r].pc = "gen"
  /\ LET n == runs[r].attempts + 1 IN
       runs' = IF n = maxAttempts
               THEN [runs EXCEPT ![r].attempts = 0, ![r].pc = "catch"]
               ELSE [runs EXCEPT ![r].attempts = n]
  /\ out' = NoOut
  /\ UNCHANGED <<store, jobs, wait, delayed, failed, started, removedWaiting, leaked>>

\* generateAppCode: one fs.copy that throws after it has written part of the
\* template to outputPath; the path has not been returned to the caller.
CopyFailsPartial(r) ==
  /\ runs[r].pc = "gen"
  /\ LET n == runs[r].attempts + 1 IN
       runs' = IF n = maxAttempts
               THEN [runs EXCEPT ![r].attempts = 0, ![r].onDisk = TRUE, ![r].pc = "catch"]
               ELSE [runs EXCEPT ![r].attempts = n, ![r].onDisk = TRUE]
  /\ out' = NoOut
  /\ UNCHANGED <<store, jobs, wait, delayed, failed, started, removedWaiting, leaked>>

\* generateAppCode: fs.copy succeeds and the output path is returned.
CopySucceeds(r) ==
  /\ runs[r].pc = "gen"
  /\ runs' = [runs EXCEPT ![r].attempts = 0, ![r].appPath = TRUE, ![r].onDisk = TRUE,
                          ![r].pc = "wrGenerating"]
  /\ out' = NoOut
  /\ UNCHANGED <<store, jobs, wait, delayed, failed, started, removedWaiting, leaked>>

\* db.previews.update(jobId, {status: 'generating'})
WriteGenerating(r) ==
  /\ runs[r].pc = "wrGenerating"
  /\ store' = Update(store, runs[r].job, [status |-> "generating"])
  /\ runs' = [runs EXCEPT ![r].pc = "deploy"]
  /\ out' = NoOut
  /\ UNCHANGED <<jobs, wait, delayed, failed, started, removedWaiting, leaked>>

\* const liveUrl = await deployToNetlify(appPath); if (!liveUrl) throw ...
DeployReturns(r, u) ==
  /\ runs[r].pc = "deploy"
  /\ runs' = IF Falsy(u)
             THEN [runs EXCEPT ![r].liveUrl = u, ![r].pc = "catch"]
             ELSE [runs EXCEPT ![r].liveUrl = u, ![r].pc = "wrLive"]
  /\ out' = NoOut
  /\ UNCHANGED <<store, jobs, wait, delayed, failed, started, removedWaiting, leaked>>

\* deployToNetlify throws.
DeployThrows(r) ==
  /\ runs[r].pc = "deploy"
  /\ runs' = [runs EXCEPT ![r].pc = "catch"]
  /\ out' = NoOut
  /\ UNCHANGED <<store, jobs, wait, delayed, failed, started, removedWaiting, leaked>>

\* db.previews.update(jobId, {status: 'live', liveUrl})
WriteLive(r) ==
  /\ runs[r].pc = "wrLive"
  /\ store' = Update(store, runs[r].job, [status |-> "live", liveUrl |-> runs[r].liveUrl])
  /\ runs' = [runs EXCEPT ![r].pc = "cleanup"]
  /\ out' = NoOut
  /\ UNCHANGED <<jobs, wait, delayed, failed, started, removedWaiting, leaked>>

\* fs.remove(appPath) removes the directory and the handler resolves. For an
\* entry a processor holds, the queue completes it and removeOnComplete
\* deletes it; an abandoned invocation just ends.
Finish(r) ==
  /\ runs[r].pc = "cleanup"
  /\ runs' = [runs EXCEPT ![r] = Idle]
  /\ IF r \in Workers
     THEN /\ jobs' = [jobs EXCEPT ![runs[r].job] = NoJob]
          /\ out' = NoOut
     ELSE jobs' = jobs /\ out' = NoOut
  /\ UNCHANGED <<store, wait, delayed, failed, started, removedWaiting, leaked>>

\* fs.remove(appPath) rejects; .catch(() => {}) swallows it and the handler
\* resolves all the same, the directory staying behind.
FinishCleanupFails(r) ==
  /\ runs[r].pc = "cleanup"
  /\ runs' = [runs EXCEPT ![r] = Idle]
  /\ leaked' = leaked \cup {<<runs[r].job, RemoveFailed>>}
  /\ IF r \in Workers
     THEN /\ jobs' = [jobs EXCEPT ![runs[r].job] = NoJob]
          /\ out' = NoOut
     ELSE jobs' = jobs /\ out' = NoOut
  /\ UNCHANGED <<store, wait, delayed, failed, started, removedWaiting>>

\* A catch block that only rethrows.
CatchRethrowsOnly(r) ==
  /\ runs[r].pc = "catch"
  /\ runs' = [runs EXCEPT ![r].pc = "rethrow"]
  /\ out' = NoOut
  /\ UNCHANGED <<store, jobs, wait, delayed, failed, started, removedWaiting, leaked>>

\* catch: fs.remove(appPath) if set, db.previews.update(jobId, {status:
\* 'failed', error: error.message})
WriteFailed(r) ==
  /\ runs[r].pc = "catch"
  /\ store' = Update(store, runs[r].job, [status |-> "failed", error |-> PipelineError])
  /\ runs' = [runs EXCEPT ![r].pc = "rethrow",
                          ![r].onDisk = IF runs[r].appPath THEN FALSE ELSE @]
  /\ out' = NoOut
  /\ UNCHANGED <<jobs, wait, delayed, failed, started, removedWaiting, leaked>>

\* The same catch block when its fs.remove(appPath) rejects: swallowed.
WriteFailedCleanupFails(r) ==
  /\ runs[r].pc = "catch"
  /\ runs[r].appPath
  /\ store' = Update(store, runs[r].job, [status |-> "failed", error |-> PipelineError])
  /\ runs' = [runs EXCEPT ![r].pc = "rethrow"]
  /\ out' = NoOut
  /\ UNCHANGED <<jobs, wait, delayed, failed, started, removedWaiting, leaked>>

\* throw error: the queue fails the attempt of an entry a processor holds;
\* the rejection of an abandoned invocation is ignored.
Rethrow(r) ==
  /\ runs[r].pc = "rethrow"
  /\ runs' = [runs EXCEPT ![r] = Idle]
  /\ leaked' = IF runs[r].onDisk
               THEN leaked \cup {<<runs[r].job,
                                    IF runs[r].appPath THEN RemoveFailed ELSE NeverRemoved>>}
               ELSE leaked
  /\ IF r \in Workers
     THEN MoveToFailed(runs[r].job) /\ out' = NoOut
     ELSE UNCHANGED <<jobs, delayed, failed>> /\ out' = NoOut
  /\ UNCHANGED <<store, wait, started, removedWaiting>>

DeployResults == {DeployUrl, "", Null}

Next ==
  \/ \E j \in Ids : Submit(j)
  \/ \E j \in Ids : SubmitEnqueueFails(j)
  \/ \E j \in Ids : DuplicateAdd(j)
  \/ \E j \in Ids : Cancel(j)
  \/ \E j \in Ids : CancelActiveSilent(j)
  \/ \E j \in Ids : CancelActiveThrows(j)
  \/ \E w \in Workers : Dequeue(w)
  \/ \E j \in Ids : PromoteDelayed(j)
  \/ \E r \in RunIds : WriteBuilding(r)
  \/ \E r \in RunIds : CopyFails(r)
  \/ \E r \in RunIds : CopySucceeds(r)
  \/ \E r \in RunIds : WriteGenerating(r)
  \/ \E r \in RunIds, u \in DeployResults : DeployReturns(r, u)
  \/ \E r \in RunIds : DeployThrows(r)
  \/ \E r \in RunIds : WriteLive(r)
  \/ \E r \in RunIds : Finish(r)
  \/ \E r \in RunIds : WriteFailed(r)
  \/ \E r \in RunIds : Rethrow(r)

Spec == Init /\ [][Next]_vars

NextTimeout == Next \/ \E w \in Workers : Timeout(w)

SpecTimeout == InitTimeout /\ [][NextTimeout]_vars

\* Every fs.copy fails; nobody cancels; no attempt outlives its timeout.
NextGenFails ==
  \/ \E j \in Ids : Submit(j)
  \/ \E w \in Workers : Dequeue(w)
  \/ \E j \in Ids : PromoteDelayed(j)
  \/ \E r \in RunIds : WriteBuilding(r)
  \/ \E r \in RunIds : CopyFails(r)
  \/ \E r \in RunIds : WriteFailed(r)
  \/ \E r \in RunIds : Rethrow(r)

SpecGenFails == Init /\ [][NextGenFails]_vars

\* Every generation succeeds and every deployment fails (it throws or returns
\* no URL); nobody cancels; no attempt outlives its timeout.
NextDeployFails ==
  \/ \E j \in Ids : Submit(j)
  \/ \E w \in Workers : Dequeue(w)
  \/ \E j \in Ids : PromoteDelayed(j)
  \/ \E r \in RunIds : WriteBuilding(r)
  \/ \E r \in RunIds : CopySucceeds(r)
  \/ \E r \in RunIds : WriteGenerating(r)
  \/ \E r \in RunIds, u \in DeployResults \ {DeployUrl} : DeployReturns(r, u)
  \/ \E r \in RunIds : DeployThrows(r)
  \/ \E r \in RunIds : WriteFailed(r)
  \/ \E r \in RunIds : Rethrow(r)

SpecDeployFails == Init /\ [][NextDeployFails]_vars

\* The pipeline with a file system that can fail half-way: a copy may throw
\* after writing files, a removal may be rejected. Nobody cancels; no attempt
\* outlives its timeout.
NextCleanup ==
  \/ \E j \in Ids : Submit(j)
  \/ \E w \in Workers : Dequeue(w)
  \/ \E j \in Ids : PromoteDelayed(j)
  \/ \E r \in RunIds : WriteBuilding(r)
  \/ \E r \in RunIds : CopyFails(r)
  \/ \E r \in RunIds : CopyFailsPartial(r)
  \/ \E r \in RunIds : CopySucceeds(r)
  \/ \E r \in RunIds : WriteGenerating(r)
  \/ \E r \in RunIds, u \in DeployResults : DeployReturns(r, u)
  \/ \E r \in RunIds : DeployThrows(r)
  \/ \E r \in RunIds : WriteLive(r)
  \/ \E r \in RunIds : Finish(r)
  \/ \E r \in RunIds : FinishCleanupFails(r)
  \/ \E r \in RunIds : WriteFailed(r)
  \/ \E r \in RunIds : WriteFailedCleanupFails(r)
  \/ \E r \in RunIds : Rethrow(r)

SpecCleanup == Init /\ [][NextCleanup]_vars

\* The steps the processors and the calls they wait on take by themselves:
\* every generation and deployment returns or throws, every backoff elapses.
Work ==
  \/ \E w \in Workers : Dequeue(w)
  \/ \E j \in Ids : PromoteDelayed(j)
  \/ \E r \in RunIds : WriteBuilding(r)
  \/ \E r \in RunIds : CopyFails(r)
  \/ \E r \in RunIds : CopySucceeds(r)
  \/ \E r \in RunIds : WriteGenerating(r)
  \/ \E r \in RunIds, u \in DeployResults : DeployReturns(r, u)
  \/ \E r \in RunIds : DeployThrows(r)
  \/ \E r \in RunIds : WriteLive(r)
  \/ \E r \in RunIds : Finish(r)
  \/ \E r \in RunIds : WriteFailed(r)
  \/ \E r \in RunIds : Rethrow(r)

\* Accepted submissions and the work on them; nobody cancels.
NextFair ==
  \/ \E j \in Ids : Submit(j)
  \/ \E j \in Ids : DuplicateAdd(j)
  \/ Work

SpecFair == Init /\ [][NextFair]_vars /\ WF_vars(Work)

\* The same with the entry timeout.
NextFairTimeout == NextFair \/ \E w \in Workers : Timeout(w)

SpecFairTimeout == InitTimeout /\ [][NextFairTimeout]_vars /\ WF_vars(Work)

\* ScenarioJobs jobs are submitted, every generation and deployment succeeds,
\* nobody cancels, no attempt outlives its timeout. The processors and the
\* calls they wait on make progress.
ScenarioIds == 1..ScenarioJobs

InitScenario == Start(ScenarioIds)

ScenarioWork ==
  \/ \E w \in Workers : Dequeue(w)
  \/ \E r \in RunIds : WriteBuilding(r)
  \/ \E r \in RunIds : CopySucceeds(r)
  \/ \E r \in RunIds : WriteGenerating(r)
  \/ \E r \in RunIds : DeployReturns(r, DeployUrl)
  \/ \E r \in RunIds : WriteLive(r)
  \/ \E r \in RunIds : Finish(r)

NextScenario ==
  \/ \E j \in Ids : Submit(j)
  \/ ScenarioWork

SpecScenario == InitScenario /\ [][NextScenario]_vars /\ WF_vars(ScenarioWork)

\* ------------------------------------------------- GET /api/preview/:id
\* let queuePosition = null -- a number that is absent; like null it is falsy.
NoNumber == 0

\* ~30 seconds per job
SecondsPerJob == 30

\* previewQueue.getJobCounts()
GetJobCounts ==
  [waiting |-> Len(wait),
   active |-> Cardinality({w \in Workers : runs[w].pc # "idle"})]

\* queuePosition as computed before the response is built: the counts of the
\* whole queue plus one when getJob finds an entry under the id, else null.
PositionNotCountingSelf(j) ==
  IF jobs[j].present THEN GetJobCounts.waiting + GetJobCounts.active ELSE NoNumber

QueuePosition(j) ==
  IF jobs[j].present THEN GetJobCounts.waiting + GetJobCounts.active + 1 ELSE NoNumber

\* The response of the status request for id j.
StatusResponse(j) ==
  IF store[j].status = "none"
  THEN [code |-> 404, status |-> "none", queuePosition |-> NoNumber, estimatedTime |-> NoNumber]
  ELSE [code |-> 200,
        status |-> store[j].status,
        queuePosition |->
          IF QueuePosition(j) # NoNumber /\ store[j].status = "building"
          THEN QueuePosition(j) ELSE NoNumber,
        estimatedTime |->
          IF QueuePosition(j) # NoNumber
          THEN QueuePosition(j) * SecondsPerJob ELSE NoNumber]

\* ================================================================ claims
Terminal == {"live", "failed"}
Busy(r) == runs[r].pc # "idle"

\* C1: terminal states are absorbing -- once a job's status is live or
\* failed, no step changes it.
TerminalAbsorbing ==
  [][\A j \in Ids : store[j].status \in Terminal => store'[j].status = store[j].status]_vars

\* C2: no phase is skipped -- the step that starts generation has set the
\* record to generating, and a status becomes live only from deploying.
NoPhaseSkipped ==
  [][/\ \A r \in RunIds :
          (runs[r].pc = "start" /\ runs'[r].pc = "gen")
            => store'[runs[r].job].status = "generating"
     /\ \A j \in Ids :
          (store[j].status # "live" /\ store'[j].status = "live")
            => store[j].status = "deploying"]_vars

BoundedConcurrency ==
  Cardinality({r \in RunIds : Busy(r)}) <= Concurrency

\* C5: FIFO admission -- when a processor starts the entry at one position of
\* the wait list, no entry at an earlier position is left waiting.
FifoAdmission ==
  [][\A i, k \in DOMAIN wait :
       (i < k /\ started'[wait[k]] > started[wait[k]])
         => ~(\E m \in DOMAIN wait' : wait'[m] = wait[i])]_vars

\* C5 witness: a processor has just taken an entry while another entry,
\* enqueued after it, stays waiting.
StartedAheadOfWaiting ==
  /\ out.ev = "processing"
  /\ wait # <<>>
  /\ \E w \in Workers : runs[w].pc = "start" /\ runs[w].job = out.id

EmptyUrlFails ==
  [][\A r \in RunIds :
       LET a == runs[r]
           b == runs'[r] IN
       /\ (a.pc = "deploy" /\ b.pc \notin {"deploy", "idle"} /\ b.liveUrl \in {Null, ""})
            => (b.pc = "catch" /\ store' = store)
       /\ (a.pc = "wrLive" /\ b # a) => a.liveUrl \notin {Null, ""}
       /\ (a.pc = "catch" /\ b # a)
            => /\ b.pc = "rethrow"
               /\ store'[a.job].status = "failed"
               /\ store'[a.job].error # Null
       /\ (a.pc = "rethrow" /\ b # a /\ r \in Workers)
            => jobs'[a.job].attemptsMade = jobs[a.job].attemptsMade + 1]_vars

\* C7 witness: an attempt whose deployment returned the empty URL has written
\* failed with an error and is about to rethrow.
EmptyUrlRecordedFailed ==
  \E r \in RunIds :
    /\ runs[r].pc = "rethrow" /\ runs[r].liveUrl = ""
    /\ store[runs[r].job].status = "failed"
    /\ store[runs[r].job].error = PipelineError
    /\ store[runs[r].job].liveUrl = Null

\* C8: a job whose waiting entry a cancel removed has no queue entry, is run
\* by no processor, and keeps status failed.
CancelWaitingFinal ==
  \A j \in removedWaiting :
    /\ EntryCount(j) = 0 /\ ~jobs[j].present
    /\ store[j].status = "failed"

\* C9: a run about to write live on a record that a cancel has marked failed
\* does not turn it live.
CancelBeatsLateSuccess ==
  [][\A r \in RunIds :
       (/\ runs[r].pc = "wrLive"
        /\ store[runs[r].job].status = "failed"
        /\ store[runs[r].job].error = CancelledByUser)
         => store'[runs[r].job].status # "live"]_vars

\* C10: liveUrl is non-null exactly when the status is live.
LiveUrlIffLive ==
  \A j \in Ids : (store[j].liveUrl # Null) <=> (store[j].status = "live")

\* C11: error is non-null exactly when the status is failed, also while a
\* retry runs after a failed attempt.
ErrorIffFailed ==
  \A j \in Ids : (store[j].error # Null) <=> (store[j].status = "failed")

\* C12: the status response of a job whose status is live or failed has
\* neither a queuePosition nor an estimatedTime, whatever the queue holds.
TerminalHidesQueueInfo ==
  \A j \in Ids :
    store[j].status \in Terminal
      => /\ StatusResponse(j).queuePosition = NoNumber
         /\ StatusResponse(j).estimatedTime = NoNumber

AllSubmittedNoneCompleted == \A j \in Ids : jobs[j].present
NoSubmission == \A j \in Ids : store'[j].status = "none" <=> store[j].status = "none"
LastJob == CHOOSE j \in Ids : \A k \in Ids : k <= j

UnknownIdNotFound ==
  [][\A j \in Ids :
       store[j].status = "none"
         => /\ StatusResponse(j).code = 404
            /\ (out'.id = j /\ out'.ev \in {"cancelled", "cancel failed"})
                 => /\ out'.ev # "cancelled"
                    /\ UNCHANGED <<store, jobs, wait, delayed, failed>>]_vars

\* The attempts of job j that the entry timeout abandoned and that are still
\* waiting on generation or deployment.
Hung(j) == {z \in Abandoned : runs[z].job = j /\ runs[z].pc \in {"gen", "deploy"}}

\* C15: a timeout counts as a failed attempt of the entry, and a job whose
\* every attempt hangs past its timeout ends with its entry in the failed set
\* and its status failed.
TimeoutsEndFailed ==
  \A j \in Ids :
    jobs[j].present
      => /\ Cardinality(Hung(j)) <= jobs[j].attemptsMade
         /\ Cardinality(Hung(j)) = Attempts
              => /\ failed[j] = 1
                 /\ store[j].status = "failed"

\* A job is settled: its status is terminal and its entry is neither waiting,
\* delayed nor active -- live with the entry removed, or failed with the
\* entry retained in the failed set.
Settled(j) ==
  /\ WaitCount(j) + delayed[j] + ActiveCount(j) = 0
  /\ \/ store[j].status = "live" /\ ~jobs[j].present
     \/ store[j].status = "failed" /\ failed[j] = 1

\* C16: without cancellation and with the processors and their calls making
\* progress, every accepted job is eventually settled.
EveryJobSettles ==
  \A j \in JobIds : (store[j].status # "none") ~> Settled(j)

\* The same with entry timeouts, for the jobs of SpecFairTimeout: whatever the
\* abandoned invocations write, the status ends terminal and stays so.
SettlesDespiteTimeouts ==
  \A j \in TimeoutJobIds :
    (store[j].status # "none")
      ~> [](store[j].status \in Terminal /\ WaitCount(j) + delayed[j] + ActiveCount(j) = 0)

\* C16 witness: a job has gone live with its entry removed while another has
\* failed with its entry retained.
OneLiveOneFailed ==
  \E j, k \in Ids :
    /\ Settled(j) /\ store[j].status = "live"
    /\ Settled(k) /\ store[k].status = "failed" /\ started[k] = Attempts

\* C17: at most one invocation of processPreviewJob is executing for any job
\* id, also after an entry timeout and when the id is enqueued again.
OneRunPerJob ==
  \A j \in Ids : Cardinality({r \in RunIds : Busy(r) /\ runs[r].job = j}) <= 1

\* C18: a job with a queue entry and a non-terminal status is told
\* queuePosition = waiting + active + 1 and estimatedTime = SecondsPerJob times
\* that, the two being both absent or both present.
PositionAndEstimateAgree ==
  \A j \in Ids :
    LET resp == StatusResponse(j) IN
    (jobs[j].present /\ store[j].status \in {"building", "generating", "deploying"})
      => /\ resp.queuePosition = GetJobCounts.waiting + GetJobCounts.active + 1
         /\ resp.estimatedTime = SecondsPerJob * resp.queuePosition
         /\ (resp.queuePosition = NoNumber) <=> (resp.estimatedTime = NoNumber)

\* C19: the retry unit is the whole pipeline -- every attempt the queue
\* starts, retries included, begins at step 1 with nothing generated and goes
\* on to CodeGenerator; an attempt reaches the deployment only from its own
\* successful generation; an attempt rethrows only after its catch block
\* has written failed with an error; and the rethrown failure of an attempt
\* that holds a processor is counted by the queue, which retries or retains
\* the entry.
RetryIsWholePipeline ==
  [][/\ \A j \in Ids :
          started'[j] > started[j]
            => \E w \in Workers : runs'[w] = [Idle EXCEPT !.job = j, !.pc = "start"]
     /\ \A r \in RunIds :
          LET a == runs[r]
              b == runs'[r] IN
          /\ a.pc \in {"start", "gen"} => ~a.appPath
          /\ a.pc \in {"wrGenerating", "deploy", "wrLive", "cleanup"} => a.appPath
          /\ (a.pc = "start" /\ b # a) => (b.pc = "gen" /\ b.job = a.job)
          /\ (a.pc \notin {"idle", "deploy"} /\ b.pc = "deploy")
               => (a.pc = "wrGenerating" /\ b.job = a.job)
          /\ (a.pc \notin {"idle", "rethrow"} /\ b.pc = "rethrow")
               => /\ a.pc = "catch" /\ b.job = a.job
                  /\ store'[a.job].status = "failed"
                  /\ store'[a.job].error # Null
          /\ (a.pc = "rethrow" /\ b # a /\ r \in Workers)
               => /\ jobs'[a.job].attemptsMade = jobs[a.job].attemptsMade + 1
                  /\ delayed'[a.job] + failed'[a.job] = 1]_vars

\* C19 witness: the retry of a job whose earlier attempt failed during the
\* deployment has generated the code again and is deploying it.
RetryDeploysItsOwnArtifact ==
  \E w \in Workers :
    /\ runs[w].pc = "deploy" /\ runs[w].appPath
    /\ jobs[runs[w].job].attemptsMade >= 1
    /\ store[runs[w].job].error = PipelineError

\* C20: when an attempt ends, the directory it created has been removed
\* (the only directories left behind are those whose removal itself failed),
\* and whether the removal fails or not, a succeeding attempt leaves the
\* status it wrote and completes its entry, and a failing attempt writes
\* failed with an error and hands its failure to the queue.
ArtifactsReleased ==
  [][/\ \A x \in leaked' : x[2] = RemoveFailed
     /\ \A r \in RunIds :
          LET a == runs[r]
              b == runs'[r] IN
          /\ (a.pc = "cleanup" /\ b.pc = "idle")
               => /\ store' = store
                  /\ r \in Workers => ~jobs'[a.job].present
          /\ (a.pc = "catch" /\ b.pc = "rethrow")
               => /\ store'[a.job].status = "failed"
                  /\ store'[a.job].error # Null
          /\ (a.pc = "rethrow" /\ b.pc = "idle" /\ r \in Workers)
               => jobs'[a.job].attemptsMade = jobs[a.job].attemptsMade + 1]_vars

\* C21: no orphaned jobs -- every record whose status is not terminal has a
\* queue entry that is waiting, delayed or active, also when the enqueue of a
\* submission failed after its record was inserted.
NoOrphanedJobs ==
  \A j \in Ids :
    store[j].status \in {"building", "generating", "deploying"}
      => /\ jobs[j].present
         /\ WaitCount(j) + delayed[j] + ActiveCount(j) >= 1

====
